---- MODULE Spec2Model ----
(***************************************************************************)
(* mcppotluck: the player->team index built at import time by              *)
(* helpers.initplayermap, the lookups that read it, and the team-name      *)
(* resolution of helpers.lookup_team_id / baseball_server.lookup_team.     *)
(*                                                                         *)
(* Python dicts are functions whose DOMAIN is the set of keys; the empty   *)
(* dict is <<>>.  Text that the code inspects character by character       *)
(* (team names) is a sequence of one-character strings.                    *)
(***************************************************************************)
EXTENDS Integers, Sequences, FiniteSets, TLC

VARIABLES
    pc,           \* where the process is: "building", "built", "raised", "serving", "exited"
    curteam,      \* initplayermap: index into mlb_teams of the next team of the loop
    player2team,  \* helpers.player2team
    upstream,     \* the provider's roster data: [roster : team index -> set of player ids, suffix]
    returned,     \* player ids returned by the roster requests of the current initplayermap run
    failed,       \* team indices whose roster request brought back no document in the current run
    prevMap,      \* player2team as it was when the current initplayermap run started
    runs,         \* completed initplayermap runs, counted up to 2
    unchanged,    \* consecutive completed runs over the same upstream data, counted up to 2
    changes,      \* upstream changes so far
    last          \* the last call served: [op, arg, out]

vars == <<pc, curteam, player2team, upstream, returned, failed, prevMap, runs,
          unchanged, changes, last>>

-----------------------------------------------------------------------------
(* Bounds *)

MaxPlayerId == 2
MaxChanges == 1
MaxNameLen == 2
MaxGames == 7

-----------------------------------------------------------------------------
(* Python values *)

None == [none |-> TRUE]

EmptyDict == <<>>

Raised(kind) == [raised |-> kind]

IsRaised(v) == DOMAIN v = {"raised"}

Returned(v) == [value |-> v]

DigitStr == <<"0", "1", "2", "3", "4", "5", "6", "7", "8", "9">>

RECURSIVE str(_)
str(n) ==
    IF n < 0 THEN "-" \o str(-n)
    ELSE IF n < 10 THEN DigitStr[n + 1]
    ELSE str(n \div 10) \o DigitStr[(n % 10) + 1]

int(s) == CHOOSE n \in 100..199 : str(n) = s

-----------------------------------------------------------------------------
(* The upstream provider and the raw fetch *)

NetOutcomes == {"ok", "http_error", "conn_error"}

\* what requests.get, raise_for_status and response.json() can do to one call
\* of get_mlb_stats: "bad_json" is a body that response.json() cannot parse
FetchOutcomes == NetOutcomes \cup {"bad_json"}

\* a variant of the fetch that catches HTTPError only
get_mlb_stats_http_only(net, json) ==
    IF net = "ok" THEN json
    ELSE IF net = "http_error" THEN None
    ELSE [raised |-> net]

\* get_mlb_stats: the parsed JSON on success; on HTTPError or any other
\* exception it prints and falls off the end, which returns None.
get_mlb_stats(net, json) == IF net = "ok" THEN json ELSE None

-----------------------------------------------------------------------------
(* Text: a string is a sequence of characters *)

Chars == {"a", "b", "A", " "}

LowerChar(c) == IF c = "A" THEN "a" ELSE IF c = "B" THEN "b" ELSE c

\* str.lower()
lower(s) == [i \in 1..Len(s) |-> LowerChar(s[i])]

IsSpace(c) == c = " "

\* str.strip(): drops the leading and the trailing whitespace, keeps the inner
strip(s) ==
    LET inked == {i \in 1..Len(s) : ~IsSpace(s[i])}
        first == CHOOSE i \in inked : \A j \in inked : i <= j
        final == CHOOSE i \in inked : \A j \in inked : j <= i
    IN  IF inked = {} THEN <<>> ELSE SubSeq(s, first, final)

\* Python's "sub in s" on strings
contains(s, sub) ==
    \E i \in 0..(Len(s) - Len(sub)) : SubSeq(s, i + 1, i + Len(sub)) = sub

\* a dict that remembers the order in which its keys were first inserted
OrderedDict == [keys |-> <<>>, val |-> <<>>]

HasKey(d, k) == \E i \in 1..Len(d.keys) : d.keys[i] = k

Get(d, k) == d.val[CHOOSE i \in 1..Len(d.keys) : d.keys[i] = k]

\* d[k] = v: a new key goes last, an old key keeps its place and takes the value
Put(d, k, v) ==
    IF HasKey(d, k)
    THEN [d EXCEPT !.val[CHOOSE i \in 1..Len(d.keys) : d.keys[i] = k] = v]
    ELSE [keys |-> Append(d.keys, k), val |-> Append(d.val, v)]

-----------------------------------------------------------------------------
(* Team-name resolution: helpers.lookup_team_id and the endpoint lookup_team *)

\* the provider's teams as the standings documents name them
TeamPool ==
    { [team |-> [id |-> 141, name |-> <<"A", "b">>]],
      [team |-> [id |-> 147, name |-> <<"A", "b", "a">>]],
      [team |-> [id |-> 111, name |-> <<"b", "A">>]],
      [team |-> [id |-> 139, name |-> <<" ", "a", "b">>]] }

Divisions1 == {<<>>} \cup {<<t>> : t \in TeamPool}

Divisions2 ==
    Divisions1 \cup ({<<t, u>> : t \in TeamPool, u \in TeamPool} \ {<<t, t>> : t \in TeamPool})

\* a league's standings document: some lack the 'records' key
StandingsJson ==
    { [message |-> "Object not found"] }
      \cup { [records |-> <<>>] }
      \cup { [records |-> <<[teamRecords |-> d]>>] : d \in Divisions2 \ {<<>>} }
      \cup { [records |-> <<[teamRecords |-> d], [teamRecords |-> e]>>] :
               d \in Divisions1 \ {<<>>}, e \in Divisions1 \ {<<>>} }

\* what one standings request brings back: a transport outcome and a document
StandingsReplies ==
    { [net |-> n, json |-> None] : n \in NetOutcomes \ {"ok"} }
      \cup { [net |-> "ok", json |-> j] : j \in StandingsJson }

\* for curdivdata in subleague_standings['records']:
\*     for curteamdata in curdivdata['teamRecords']: ...
RECURSIVE TeamRecords(_, _)
TeamRecords(records, i) ==
    IF i > Len(records) THEN <<>>
    ELSE records[i].teamRecords \o TeamRecords(records, i + 1)

\* subscripting what get_mlb_stats returned with ['records']
SubscriptError(doc) ==
    IF doc = None THEN "TypeError"
    ELSE IF "records" \notin DOMAIN doc THEN "KeyError"
    ELSE "none"

\* a variant that keeps the case-folded name as the display name
RECURSIVE FillNames_folded(_, _, _)
FillNames_folded(teams, i, maps) ==
    IF i > Len(teams) THEN maps
    ELSE LET cleanname == strip(lower(teams[i].team.name))
         IN  FillNames_folded(teams, i + 1,
                 [name2id |-> Put(maps.name2id, cleanname, teams[i].team.id),
                  name2beautiful |-> Put(maps.name2beautiful, cleanname, cleanname)])

\* the two dicts name2id and name2beautiful after the teams seen so far
RECURSIVE FillNames(_, _, _)
FillNames(teams, i, maps) ==
    IF i > Len(teams) THEN maps
    ELSE LET cleanname == strip(lower(teams[i].team.name))
         IN  FillNames(teams, i + 1,
                 [name2id |-> Put(maps.name2id, cleanname, teams[i].team.id),
                  name2beautiful |-> Put(maps.name2beautiful, cleanname, teams[i].team.name)])

\* for curname, curid in name2id.items(): a variant that stops at the first match
RECURSIVE SubstringScan_break(_, _, _, _)
SubstringScan_break(usename, maps, i, ret_data) ==
    IF i > Len(maps.name2id.keys) THEN ret_data
    ELSE LET curname == maps.name2id.keys[i]
         IN  IF contains(curname, usename)
             THEN [team_id |-> maps.name2id.val[i],
                   team_name |-> Get(maps.name2beautiful, curname)]
             ELSE SubstringScan_break(usename, maps, i + 1, ret_data)

\* for curname, curid in name2id.items(): every match overwrites ret_data
RECURSIVE SubstringScan(_, _, _, _)
SubstringScan(usename, maps, i, ret_data) ==
    IF i > Len(maps.name2id.keys) THEN ret_data
    ELSE LET curname == maps.name2id.keys[i]
         IN  SubstringScan(usename, maps, i + 1,
                 IF contains(curname, usename)
                 THEN [team_id |-> maps.name2id.val[i],
                       team_name |-> Get(maps.name2beautiful, curname)]
                 ELSE ret_data)

\* the exact match of the variant below, which always goes on to the scan
ExactMatch_then_scan(usename, maps) == EmptyDict

\* if usename in name2id: ret_data is that entry
ExactMatch(usename, maps) ==
    IF HasKey(maps.name2id, usename)
    THEN [team_id |-> Get(maps.name2id, usename),
          team_name |-> Get(maps.name2beautiful, usename)]
    ELSE EmptyDict

\* the body of the try block, shared word for word by the helper and the endpoint
ResolveTeam(team_name, r103, r104) ==
    LET usename == strip(lower(team_name))
        d103 == get_mlb_stats(r103.net, r103.json)
        d104 == get_mlb_stats(r104.net, r104.json)
    IN  IF SubscriptError(d103) # "none" THEN Raised(SubscriptError(d103))
        ELSE IF SubscriptError(d104) # "none" THEN Raised(SubscriptError(d104))
        ELSE LET teams == TeamRecords(d103.records, 1) \o TeamRecords(d104.records, 1)
                 maps == FillNames(teams, 1,
                             [name2id |-> OrderedDict, name2beautiful |-> OrderedDict])
                 ret_data == ExactMatch(usename, maps)
             IN  Returned(IF DOMAIN ret_data = {}
                          THEN SubstringScan(usename, maps, 1, ret_data)
                          ELSE ret_data)

\* helpers.lookup_team_id: except Exception as e: raise Exception(str(e))
lookup_team_id(team_name, r103, r104) ==
    LET r == ResolveTeam(team_name, r103, r104)
    IN  IF IsRaised(r) THEN Raised("Exception") ELSE r

\* a variant of the endpoint that answers a name no team matches with an error
lookup_team_strict(team_name, r103, r104) ==
    LET r == ResolveTeam(team_name, r103, r104)
    IN  IF IsRaised(r) THEN Raised("HTTPException 500")
        ELSE IF DOMAIN r.value = {} THEN Raised("HTTPException 404")
        ELSE r

\* the endpoint's copy of the loops, lines 681-686 of baseball_server.py:
\*   for curdivdata in subleague_standings['records']:
\*       for curteamdata in curdivdata['teamRecords']: three assignments
\* d and t are the places of the division and of the team the loops are at
RECURSIVE lookup_team_fill(_, _, _, _)
lookup_team_fill(records, d, t, maps) ==
    IF d > Len(records) THEN maps
    ELSE IF t > Len(records[d].teamRecords) THEN lookup_team_fill(records, d + 1, 1, maps)
    ELSE LET curteamdata == records[d].teamRecords[t]
             cleanname == strip(lower(curteamdata.team.name))
         IN  lookup_team_fill(records, d, t + 1,
                 [name2id |-> Put(maps.name2id, cleanname, curteamdata.team.id),
                  name2beautiful |-> Put(maps.name2beautiful, cleanname,
                                         curteamdata.team.name)])

\* a variant of the endpoint's scan that returns at the first name that matches
RECURSIVE lookup_team_scan_first(_, _, _, _)
lookup_team_scan_first(usename, maps, i, ret_data) ==
    IF i > Len(maps.name2id.keys) THEN ret_data
    ELSE LET curname == maps.name2id.keys[i]
             curid == maps.name2id.val[i]
         IN  IF contains(curname, usename)
             THEN [team_id |-> curid, team_name |-> Get(maps.name2beautiful, curname)]
             ELSE lookup_team_scan_first(usename, maps, i + 1, ret_data)

\* the endpoint's copy of the scan, lines 693-696:
\*   for curname, curid in name2id.items(): if usename in curname: ...
RECURSIVE lookup_team_scan(_, _, _, _)
lookup_team_scan(usename, maps, i, ret_data) ==
    IF i > Len(maps.name2id.keys) THEN ret_data
    ELSE LET curname == maps.name2id.keys[i]
             curid == maps.name2id.val[i]
         IN  lookup_team_scan(usename, maps, i + 1,
                 IF contains(curname, usename)
                 THEN [team_id |-> curid, team_name |-> Get(maps.name2beautiful, curname)]
                 ELSE ret_data)

\* the try block of baseball_server.lookup_team, lines 672-698, league 103
\* and then league 104
lookup_team_try(team_name, r103, r104) ==
    LET usename == strip(lower(team_name))
        empty == [name2id |-> OrderedDict, name2beautiful |-> OrderedDict]
        s103 == get_mlb_stats(r103.net, r103.json)
    IN  IF s103 = None THEN Raised("TypeError")
        ELSE IF "records" \notin DOMAIN s103 THEN Raised("KeyError")
        ELSE LET after103 == lookup_team_fill(s103.records, 1, 1, empty)
                 s104 == get_mlb_stats(r104.net, r104.json)
             IN  IF s104 = None THEN Raised("TypeError")
                 ELSE IF "records" \notin DOMAIN s104 THEN Raised("KeyError")
                 ELSE LET maps == lookup_team_fill(s104.records, 1, 1, after103)
                          ret_data == IF HasKey(maps.name2id, usename)
                                      THEN [team_id |-> Get(maps.name2id, usename),
                                            team_name |-> Get(maps.name2beautiful, usename)]
                                      ELSE EmptyDict
                      IN  Returned(IF DOMAIN ret_data = {}
                                   THEN lookup_team_scan(usename, maps, 1, ret_data)
                                   ELSE ret_data)

\* baseball_server.lookup_team: raise HTTPException(status_code=500, detail=str(e))
lookup_team(team_name, r103, r104) ==
    LET r == lookup_team_try(team_name, r103, r104)
    IN  IF IsRaised(r) THEN Raised("HTTPException 500") ELSE r

RECURSIVE TextUpTo(_)
TextUpTo(n) ==
    IF n = 0 THEN {<<>>}
    ELSE TextUpTo(n - 1) \cup {Append(s, c) : s \in TextUpTo(n - 1), c \in Chars}

TeamQueries == TextUpTo(MaxNameLen)

-----------------------------------------------------------------------------
(* The static catalog and the provider's rosters *)

\* helpers.mlb_teams, in the order the dict literal lists its keys (its head)
mlb_teams ==
    << [id |-> "141", name |-> "Toronto Blue Jays"],
       [id |-> "147", name |-> "New York Yankees"],
       [id |-> "111", name |-> "Boston Red Sox"] >>

TeamIdx == 1..Len(mlb_teams)

\* str(team_id) in mlb_teams
InCatalog(key) == \E t \in TeamIdx : mlb_teams[t].id = key

Players == 1..MaxPlayerId

NameSuffixes == {"", " Jr."}

\* the provider's person record: its fullName
fullName(p, suffix) == "Player " \o str(p) \o suffix

RECURSIVE Ascending(_)
Ascending(S) ==
    IF S = {} THEN <<>>
    ELSE LET m == CHOOSE x \in S : \A y \in S : x <= y
         IN  <<m>> \o Ascending(S \ {m})

UpstreamStates ==
    [roster : [TeamIdx -> SUBSET Players], suffix : NameSuffixes]

\* the 40-man roster document of team t
RosterJson(up, t) ==
    LET ids == Ascending(up.roster[t])
    IN  [roster |-> [i \in 1..Len(ids) |->
                       [person |-> [id |-> ids[i], fullName |-> fullName(ids[i], up.suffix)],
                        position |-> [name |-> "Pitcher"]]]]

\* what one roster request brings back
RosterReplies(up, t) ==
    { [net |-> n, json |-> None] : n \in NetOutcomes \ {"ok"} }
      \cup { [net |-> "ok", json |-> [message |-> "Object not found"]],
             [net |-> "ok", json |-> RosterJson(up, t)] }

\* helpers.get_roster: {} for a team outside the catalog, else the roster keyed
\* by the integer player id; any exception is raised again as Exception
get_roster(team_id, reply) ==
    IF ~InCatalog(str(team_id)) THEN Returned(EmptyDict)
    ELSE LET roster_info == get_mlb_stats(reply.net, reply.json)
         IN  IF roster_info = None \/ "roster" \notin DOMAIN roster_info
             THEN Raised("Exception")
             ELSE LET r == roster_info.roster
                      ids == {r[i].person.id : i \in 1..Len(r)}
                  IN  Returned([id \in ids |->
                        LET cur == r[CHOOSE i \in 1..Len(r) : r[i].person.id = id]
                        IN  [player_id |-> cur.person.id,
                             player_name |-> cur.person.fullName,
                             position |-> cur.position.name]])

\* a variant of the inner loop that keeps the entry a player already has
RecordRoster_first(map, curteamID, curteamName, cur_roster) ==
    LET new == {str(id) : id \in DOMAIN cur_roster} \ DOMAIN map
    IN  [k \in DOMAIN map \cup new |->
            IF k \in new
            THEN LET id == CHOOSE i \in DOMAIN cur_roster : str(i) = k
                 IN  [team_id |-> curteamID, team_name |-> curteamName,
                      player_name |-> cur_roster[id].player_name]
            ELSE map[k]]

\* a variant of the inner loop that drops a player the map already holds
RecordRoster_toggle(map, curteamID, curteamName, cur_roster) ==
    LET new == {str(id) : id \in DOMAIN cur_roster}
        keep == (DOMAIN map \ new) \cup (new \ DOMAIN map)
    IN  [k \in keep |->
            IF k \in new
            THEN LET id == CHOOSE i \in DOMAIN cur_roster : str(i) = k
                 IN  [team_id |-> curteamID, team_name |-> curteamName,
                      player_name |-> cur_roster[id].player_name]
            ELSE map[k]]

\* a variant of the inner loop that leaves out the roster's last player
RecordRoster_short(map, curteamID, curteamName, cur_roster) ==
    LET most == {id \in DOMAIN cur_roster : \E other \in DOMAIN cur_roster : other > id}
        new == {str(id) : id \in most}
    IN  [k \in DOMAIN map \cup new |->
            IF k \in new
            THEN LET id == CHOOSE i \in most : str(i) = k
                 IN  [team_id |-> curteamID, team_name |-> curteamName,
                      player_name |-> cur_roster[id].player_name]
            ELSE map[k]]

\* initplayermap's inner loop:
\*   for cur_player_id, cur_player_data in cur_roster.items():
\*       player2team[str(cur_player_id)] = {team_id, team_name, player_name}
RecordRoster(map, curteamID, curteamName, cur_roster) ==
    LET new == {str(id) : id \in DOMAIN cur_roster}
    IN  [k \in DOMAIN map \cup new |->
            IF k \in new
            THEN LET id == CHOOSE i \in DOMAIN cur_roster : str(i) = k
                 IN  [team_id |-> curteamID, team_name |-> curteamName,
                      player_name |-> cur_roster[id].player_name]
            ELSE map[k]]

Unknown == [team_id |-> "Unknown", team_name |-> "Unknown", player_name |-> "Unknown"]

\* a variant that answers an absent player with an empty dict
getTeamForPlayer_empty(map, inPlayerID) ==
    IF str(inPlayerID) \in DOMAIN map THEN map[str(inPlayerID)] ELSE EmptyDict

\* helpers.getTeamForPlayer
getTeamForPlayer(map, inPlayerID) ==
    IF str(inPlayerID) \in DOMAIN map THEN map[str(inPlayerID)] ELSE Unknown

-----------------------------------------------------------------------------
(* Player lookups *)

\* the people/search document: the matches, best first, or no 'people' key
SearchJson ==
    LET person(p) == [id |-> p, fullName |-> fullName(p, "")]
        ids == 1..(MaxPlayerId + 1)
    IN  { [message |-> "Object not found"], [people |-> <<>>] }
          \cup { [people |-> <<person(p)>>] : p \in ids }
          \cup { [people |-> <<person(p), person(q)>>] : p, q \in ids }

SearchReplies ==
    { [net |-> n, json |-> None] : n \in NetOutcomes \ {"ok"} }
      \cup { [net |-> "ok", json |-> j] : j \in SearchJson }

\* a variant of the endpoint that keeps the last match of the list
lookup_player_last(reply) ==
    LET lookup_data == get_mlb_stats(reply.net, reply.json)
    IN  IF lookup_data = None THEN Raised("HTTPException 500")
        ELSE IF "people" \in DOMAIN lookup_data /\ Len(lookup_data.people) > 0
        THEN LET n == Len(lookup_data.people)
             IN  Returned([player_name |-> lookup_data.people[n].fullName,
                           player_id |-> lookup_data.people[n].id])
        ELSE Returned([player_name |-> "NA", player_id |-> 0])

\* baseball_server.lookup_player: the name and the identifier, nothing from
\* player2team; "'people' in None" raises and comes out as HTTPException 500
lookup_player(reply) ==
    LET lookup_data == get_mlb_stats(reply.net, reply.json)
    IN  IF lookup_data = None THEN Raised("HTTPException 500")
        ELSE IF "people" \in DOMAIN lookup_data /\ Len(lookup_data.people) > 0
        THEN Returned([player_name |-> lookup_data.people[1].fullName,
                       player_id |-> lookup_data.people[1].id])
        ELSE Returned([player_name |-> "NA", player_id |-> 0])

\* a variant of the helper that takes the team from getTeamForPlayer
lookup_player_id_unknown(map, reply) ==
    LET lookup_data == get_mlb_stats(reply.net, reply.json)
    IN  IF lookup_data = None THEN Raised("Exception")
        ELSE LET found == "people" \in DOMAIN lookup_data /\ Len(lookup_data.people) > 0
                 player_data ==
                     IF found
                     THEN [player_name |-> lookup_data.people[1].fullName,
                           player_id |-> lookup_data.people[1].id]
                     ELSE [player_name |-> "NA", player_id |-> 0]
                 team == getTeamForPlayer(map, player_data.player_id)
             IN  Returned(player_data @@ [team_id |-> team.team_id,
                                          team_name |-> team.team_name])

\* helpers.lookup_player_id
lookup_player_id(map, reply) ==
    LET lookup_data == get_mlb_stats(reply.net, reply.json)
    IN  IF lookup_data = None THEN Raised("Exception")   \* 'people' in None
        ELSE LET found == "people" \in DOMAIN lookup_data /\ Len(lookup_data.people) > 0
                 player_data ==
                     IF found
                     THEN [player_name |-> lookup_data.people[1].fullName,
                           player_id |-> lookup_data.people[1].id]
                     ELSE [player_name |-> "NA", player_id |-> 0]
                 key == str(player_data.player_id)
             IN  Returned(IF key \in DOMAIN map
                          THEN player_data @@ [team_id |-> map[key].team_id,
                                               team_name |-> map[key].team_name]
                          ELSE player_data)

\* the hitting or pitching line of a season; the counting fields that are only
\* copied are stood for by gamesPlayed, the four below feed the derived rates
StatLines ==
    { [gamesPlayed |-> 0, plateAppearances |-> 0, homeRuns |-> 0, baseOnBalls |-> 0, strikeOuts |-> 0],
      [gamesPlayed |-> 2, plateAppearances |-> 4, homeRuns |-> 1, baseOnBalls |-> 2, strikeOuts |-> 1],
      [gamesPlayed |-> 2, plateAppearances |-> 4, homeRuns |-> 0, baseOnBalls |-> 2, strikeOuts |-> 1] }

\* the people/<id>?hydrate=stats(...) document
PersonJson(id) ==
    LET bio == [fullName |-> fullName(id, ""), currentAge |-> 30]
    IN  { [message |-> "Object not found"], [people |-> <<>>], [people |-> <<bio>>],
          [people |-> <<bio @@ [stats |-> <<[splits |-> <<>>]>>]>>] }
          \cup { [people |-> <<bio @@ [stats |-> <<[splits |-> <<[stat |-> s]>>]>>]>>] :
                   s \in StatLines }

PersonReplies(id) ==
    { [net |-> n, json |-> None] : n \in NetOutcomes \ {"ok"} }
      \cup { [net |-> "ok", json |-> j] : j \in PersonJson(id) }

\* round(n / d, 1) in tenths, for quotients that are no tie
Round1(n, d) ==
    LET q == (10 * n) \div d
        r == (10 * n) % d
    IN  IF 2 * r > d \/ (2 * r = d /\ q % 2 = 1) THEN q + 1 ELSE q

\* the reads of player_stats['people'][0]... that raise on a document of another shape
PersonShapeError(player_stats) ==
    \/ player_stats = None
    \/ "people" \notin DOMAIN player_stats
    \/ Len(player_stats.people) = 0
    \/ /\ "stats" \in DOMAIN player_stats.people[1]
       /\ Len(player_stats.people[1].stats[1].splits) = 0

\* player_data after the identifying fields and the index lookup
Identified(map, player_id, person, zeroed) ==
    LET base == [player_id |-> player_id, player_name |-> person.fullName,
                 age |-> person.currentAge] @@ zeroed
    IN  IF str(player_id) \in DOMAIN map
        THEN [team_id |-> map[str(player_id)].team_id,
              team_name |-> map[str(player_id)].team_name] @@ base
        ELSE base

\* helpers.init_batting_stats
init_batting_stats ==
    [games |-> 0, home_runs |-> 0, walks |-> 0, strikeouts |-> 0, plate_appearances |-> 0,
     plate_appearances_per_home_run |-> 0, plate_appearances_per_walk |-> 0,
     plate_appearances_per_strikeout |-> 0]

\* helpers.get_player_batting_data; the derived rates are in tenths
get_player_batting_data(map, player_id, reply) ==
    LET player_stats == get_mlb_stats(reply.net, reply.json)
    IN  IF PersonShapeError(player_stats) THEN Raised("Exception")
        ELSE LET person == player_stats.people[1]
                 ident == Identified(map, player_id, person, init_batting_stats)
             IN  IF "stats" \notin DOMAIN person THEN Returned(ident)
                 ELSE LET st == person.stats[1].splits[1].stat
                          copied == [games |-> st.gamesPlayed, home_runs |-> st.homeRuns,
                                     walks |-> st.baseOnBalls, strikeouts |-> st.strikeOuts,
                                     plate_appearances |-> st.plateAppearances] @@ ident
                      IN  IF st.plateAppearances <= 0 THEN Returned(copied)
                          ELSE IF st.homeRuns = 0 \/ st.baseOnBalls = 0 \/ st.strikeOuts = 0
                          THEN Raised("Exception")   \* ZeroDivisionError
                          ELSE Returned(
                              [plate_appearances_per_home_run |->
                                   Round1(st.plateAppearances, st.homeRuns),
                               plate_appearances_per_walk |->
                                   Round1(st.plateAppearances, st.baseOnBalls),
                               plate_appearances_per_strikeout |->
                                   Round1(st.plateAppearances, st.strikeOuts)] @@ copied)

\* helpers.init_pitching_stats
init_pitching_stats == [games |-> 0, home_runs |-> 0, walks |-> 0, strikeouts |-> 0]

\* helpers.get_player_pitching_data
get_player_pitching_data(map, player_id, reply) ==
    LET player_stats == get_mlb_stats(reply.net, reply.json)
    IN  IF PersonShapeError(player_stats) THEN Raised("Exception")
        ELSE LET person == player_stats.people[1]
                 ident == Identified(map, player_id, person, init_pitching_stats)
             IN  IF "stats" \notin DOMAIN person THEN Returned(ident)
                 ELSE LET st == person.stats[1].splits[1].stat
                      IN  Returned([games |-> st.gamesPlayed, home_runs |-> st.homeRuns,
                                    walks |-> st.baseOnBalls,
                                    strikeouts |-> st.strikeOuts] @@ ident)

-----------------------------------------------------------------------------
(* Team statistics and the texts of the exceptions *)

\* str(e) of the TypeError of None[...], of the KeyError of a missing key and
\* of the IndexError of [0] on an empty list
NoneSubscriptText == "'NoneType' object is not subscriptable"

KeyErrorText(key) == "'" \o key \o "'"

IndexErrorText == "list index out of range"

\* the first of the keys, in the order the code reads them, that doc lacks
RECURSIVE FirstMissingKey(_, _, _)
FirstMissingKey(doc, keys, i) ==
    IF i > Len(keys) THEN "none"
    ELSE IF keys[i] \notin DOMAIN doc THEN KeyErrorText(keys[i])
    ELSE FirstMissingKey(doc, keys, i + 1)

\* the fields of a stat line the model follows, in the order the code reads
\* them: the counting fields that are only copied are stood for by gamesPlayed
BattingStatKeys == <<"gamesPlayed", "homeRuns", "baseOnBalls", "strikeOuts", "plateAppearances">>

PitchingStatKeys == <<"gamesPlayed", "homeRuns", "baseOnBalls", "strikeOuts">>

\* a stat line cut short
ShortStatLine == [gamesPlayed |-> 2]

\* the teams/<id>/stats document
TeamStatsJson ==
    LET team == [name |-> "Toronto Blue Jays"]
    IN  { [message |-> "Object not found"], [stats |-> <<>>], [stats |-> <<[splits |-> <<>>]>>] }
          \cup { [stats |-> <<[splits |-> <<[stat |-> s]>>]>>] : s \in StatLines }
          \cup { [stats |-> <<[splits |-> <<[team |-> team, stat |-> s]>>]>>] :
                   s \in StatLines \cup {ShortStatLine} }

TeamStatsReplies ==
    { [net |-> n, json |-> None] : n \in NetOutcomes \ {"ok"} }
      \cup { [net |-> "ok", json |-> j] : j \in TeamStatsJson }

\* team_split = team_stats['stats'][0]['splits'][0]: the text of what it raises
TeamSplitError(team_stats) ==
    IF team_stats = None THEN NoneSubscriptText
    ELSE IF "stats" \notin DOMAIN team_stats THEN KeyErrorText("stats")
    ELSE IF Len(team_stats.stats) = 0 THEN IndexErrorText
    ELSE IF Len(team_stats.stats[1].splits) = 0 THEN IndexErrorText
    ELSE "none"

\* the team identifiers the helpers are asked about: one of the catalog, one not
TeamArgs == {141, 999}

\* the season the callers of the helpers pass
SeasonArgs == {2025}

\* helpers.get_team_batting_data: the request, none for a team outside the catalog
get_team_batting_data_requests(team_id, season) ==
    IF ~InCatalog(str(team_id)) THEN <<>>
    ELSE <<[path |-> "teams/" \o str(team_id) \o "/stats", group |-> "hitting",
            season |-> str(season)]>>

\* helpers.get_team_batting_data; the derived rates are in tenths
get_team_batting_data(team_id, reply) ==
    LET team_data == init_batting_stats
    IN  IF ~InCatalog(str(team_id))
        THEN Returned([team_id |-> str(team_id), team_name |-> "Unknown"] @@ team_data)
        ELSE LET team_stats == get_mlb_stats(reply.net, reply.json)
             IN  IF TeamSplitError(team_stats) # "none" THEN Raised("Exception")
                 ELSE LET team_split == team_stats.stats[1].splits[1]
                          st == team_split.stat
                      IN  IF "team" \notin DOMAIN team_split THEN Raised("Exception")
                          ELSE IF FirstMissingKey(st, BattingStatKeys, 1) # "none"
                          THEN Raised("Exception")
                          ELSE LET copied ==
                                     [team_id |-> str(team_id),
                                      team_name |-> team_split.team.name,
                                      games |-> st.gamesPlayed, home_runs |-> st.homeRuns,
                                      walks |-> st.baseOnBalls, strikeouts |-> st.strikeOuts,
                                      plate_appearances |-> st.plateAppearances] @@ team_data
                               IN  IF st.plateAppearances <= 0 THEN Returned(copied)
                                   ELSE IF st.homeRuns = 0 \/ st.baseOnBalls = 0 \/ st.strikeOuts = 0
                                   THEN Raised("Exception")   \* ZeroDivisionError
                                   ELSE Returned(
                                       [plate_appearances_per_home_run |->
                                            Round1(st.plateAppearances, st.homeRuns),
                                        plate_appearances_per_walk |->
                                            Round1(st.plateAppearances, st.baseOnBalls),
                                        plate_appearances_per_strikeout |->
                                            Round1(st.plateAppearances, st.strikeOuts)] @@ copied)

\* helpers.get_team_pitching_data: the request, none for a team outside the catalog
get_team_pitching_data_requests(team_id, season) ==
    IF ~InCatalog(str(team_id)) THEN <<>>
    ELSE <<[path |-> "teams/" \o str(team_id) \o "/stats", group |-> "pitching",
            season |-> str(season)]>>

\* helpers.get_team_pitching_data
get_team_pitching_data(team_id, reply) ==
    LET team_data == init_pitching_stats
    IN  IF ~InCatalog(str(team_id))
        THEN Returned([team_id |-> str(team_id), team_name |-> "Unknown"] @@ team_data)
        ELSE LET team_stats == get_mlb_stats(reply.net, reply.json)
             IN  IF TeamSplitError(team_stats) # "none" THEN Raised("Exception")
                 ELSE LET team_split == team_stats.stats[1].splits[1]
                          st == team_split.stat
                      IN  IF "team" \notin DOMAIN team_split THEN Raised("Exception")
                          ELSE IF FirstMissingKey(st, PitchingStatKeys, 1) # "none"
                          THEN Raised("Exception")
                          ELSE Returned(
                              [team_id |-> team_id, team_name |-> team_split.team.name,
                               games |-> st.gamesPlayed, home_runs |-> st.homeRuns,
                               walks |-> st.baseOnBalls,
                               strikeouts |-> st.strikeOuts] @@ team_data)

\* a variant of get_roster's request that asks the provider before the catalog test
get_roster_requests_eager(team_id, season) ==
    <<[path |-> "teams/" \o str(team_id) \o "/roster", rosterType |-> "40Man",
       season |-> str(season)]>>

\* helpers.get_roster: the request, none for a team outside the catalog
get_roster_requests(team_id, season) ==
    IF ~InCatalog(str(team_id)) THEN <<>>
    ELSE <<[path |-> "teams/" \o str(team_id) \o "/roster", rosterType |-> "40Man",
            season |-> str(season)]>>

-----------------------------------------------------------------------------
(* Pythagorean expectation *)

\* x ** 1.83 in ten-thousandths, for the run totals of the model
Pow183 == <<10000, 35554, 74668>>

RunTotals == -1..Len(Pow183)

\* the games played of the Pythagorean calls: none, a negative count, 1..MaxGames
GameTotals == -1..MaxGames

\* a variant of round() that takes a tie upwards
RoundHalfUp(n, d) ==
    LET q == n \div d
        r == n % d
    IN  IF 2 * r >= d THEN q + 1 ELSE q

\* round(): to the nearest integer, a tie to the even one
RoundHalfEven(n, d) ==
    LET q == n \div d
        r == n % d
    IN  IF 2 * r > d \/ (2 * r = d /\ q % 2 = 1) THEN q + 1 ELSE q

\* a variant of the arithmetic behind a guard that tests games_played only
PythagoreanError_games_only(runs_scored, runs_allowed, games_played) ==
    IF games_played <= 0 THEN "none"
    ELSE IF runs_scored < 0 \/ runs_allowed < 0 THEN "TypeError"
    ELSE IF runs_scored = 0 /\ runs_allowed = 0 THEN "ZeroDivisionError"
    ELSE "none"

\* the exception the arithmetic of calculate_pythagorean_wins ends in, word for
\* word the same in both copies: a negative base ** 1.83 is a complex number,
\* which round() refuses (TypeError), and 0.0 / (0.0 + 0.0) is ZeroDivisionError;
\* the guard returns before either
PythagoreanError(runs_scored, runs_allowed, games_played) ==
    IF runs_scored <= 0 \/ runs_allowed <= 0 \/ games_played <= 0 THEN "none"
    ELSE IF runs_scored < 0 \/ runs_allowed < 0 THEN "TypeError"
    ELSE IF runs_scored = 0 /\ runs_allowed = 0 THEN "ZeroDivisionError"
    ELSE "none"

\* a variant whose percentage has the runs allowed on top
calculate_pythagorean_wins_swapped(runs_scored, runs_allowed, games_played) ==
    IF runs_scored <= 0 \/ runs_allowed <= 0 \/ games_played <= 0
    THEN [pythagorean_wins |-> 0, pythagorean_losses |-> 0,
          pythagorean_win_pct |-> [num |-> 0, den |-> 1]]
    ELSE LET rs_exp == Pow183[runs_scored]
             ra_exp == Pow183[runs_allowed]
             pythagorean_wins == RoundHalfEven(ra_exp * games_played, rs_exp + ra_exp)
         IN  [pythagorean_wins |-> pythagorean_wins,
              pythagorean_losses |-> games_played - pythagorean_wins,
              pythagorean_win_pct |-> [num |-> ra_exp, den |-> rs_exp + ra_exp]]

\* a variant of the guard that leaves out games_played
calculate_pythagorean_wins_runs_only(runs_scored, runs_allowed, games_played) ==
    IF runs_scored <= 0 \/ runs_allowed <= 0
    THEN [pythagorean_wins |-> 0, pythagorean_losses |-> 0,
          pythagorean_win_pct |-> [num |-> 0, den |-> 1]]
    ELSE LET rs_exp == Pow183[runs_scored]
             ra_exp == Pow183[runs_allowed]
             pythagorean_wins == RoundHalfEven(rs_exp * games_played, rs_exp + ra_exp)
         IN  [pythagorean_wins |-> pythagorean_wins,
              pythagorean_losses |-> games_played - pythagorean_wins,
              pythagorean_win_pct |-> [num |-> rs_exp, den |-> rs_exp + ra_exp]]

\* helpers.calculate_pythagorean_wins; the percentage is the fraction num / den
calculate_pythagorean_wins(runs_scored, runs_allowed, games_played) ==
    IF runs_scored <= 0 \/ runs_allowed <= 0 \/ games_played <= 0
    THEN [pythagorean_wins |-> 0, pythagorean_losses |-> 0,
          pythagorean_win_pct |-> [num |-> 0, den |-> 1]]
    ELSE LET rs_exp == Pow183[runs_scored]
             ra_exp == Pow183[runs_allowed]
             pythagorean_wins == RoundHalfEven(rs_exp * games_played, rs_exp + ra_exp)
         IN  [pythagorean_wins |-> pythagorean_wins,
              pythagorean_losses |-> games_played - pythagorean_wins,
              pythagorean_win_pct |-> [num |-> rs_exp, den |-> rs_exp + ra_exp]]

\* a variant that rounds the losses on their own
baseball_server_calculate_pythagorean_wins_rounded(runs_scored, runs_allowed, games_played) ==
    IF runs_scored <= 0 \/ runs_allowed <= 0 \/ games_played <= 0
    THEN [pythagorean_wins |-> 0, pythagorean_losses |-> 0,
          pythagorean_win_pct |-> [num |-> 0, den |-> 1]]
    ELSE LET rs_exp == Pow183[runs_scored]
             ra_exp == Pow183[runs_allowed]
         IN  [pythagorean_wins |-> RoundHalfEven(rs_exp * games_played, rs_exp + ra_exp),
              pythagorean_losses |-> RoundHalfEven(ra_exp * games_played, rs_exp + ra_exp),
              pythagorean_win_pct |-> [num |-> rs_exp, den |-> rs_exp + ra_exp]]

\* baseball_server.calculate_pythagorean_wins, the copy get_mlb_standings calls
baseball_server_calculate_pythagorean_wins(runs_scored, runs_allowed, games_played) ==
    IF runs_scored <= 0 \/ runs_allowed <= 0 \/ games_played <= 0
    THEN [pythagorean_wins |-> 0, pythagorean_losses |-> 0,
          pythagorean_win_pct |-> [num |-> 0, den |-> 1]]
    ELSE LET rs_exp == Pow183[runs_scored]
             ra_exp == Pow183[runs_allowed]
             win_pct == [num |-> rs_exp, den |-> rs_exp + ra_exp]
             pythagorean_wins == RoundHalfEven(win_pct.num * games_played, win_pct.den)
             pythagorean_losses == games_played - pythagorean_wins
         IN  [pythagorean_wins |-> pythagorean_wins,
              pythagorean_losses |-> pythagorean_losses,
              pythagorean_win_pct |-> win_pct]

-----------------------------------------------------------------------------
(* The process: python -m mcppotluck *)

NoCall == [op |-> "none", arg |-> <<>>, out |-> None]

\* helpers is imported (player2team = {}) and __main__ line 21 calls initplayermap
Init ==
    /\ pc = "building"
    /\ curteam = 1
    /\ player2team = EmptyDict
    /\ upstream \in UpstreamStates
    /\ returned = {}
    /\ failed = {}
    /\ prevMap = EmptyDict
    /\ runs = 0
    /\ unchanged = 0
    /\ changes = 0
    /\ last = NoCall

\* one turn of initplayermap's loop over mlb_teams.items(): the roster request
\* of the team and the recording of its players.  An exception of get_roster is
\* not caught: it leaves initplayermap, with the entries written so far in place.
BuildTeam ==
    /\ pc = "building"
    /\ \E reply \in RosterReplies(upstream, curteam) :
         LET curteamID == mlb_teams[curteam].id
             curteamName == mlb_teams[curteam].name
             cur_roster == get_roster(int(curteamID), reply)
         IN  IF IsRaised(cur_roster)
             THEN /\ pc' = "raised"
                  /\ failed' = IF reply.net = "ok" THEN failed ELSE failed \cup {curteam}
                  /\ unchanged' = 0
                  /\ UNCHANGED <<curteam, player2team, returned, runs>>
             ELSE /\ player2team' = RecordRoster(player2team, curteamID, curteamName,
                                                 cur_roster.value)
                  /\ returned' = returned \cup DOMAIN cur_roster.value
                  /\ curteam' = curteam + 1
                  /\ IF curteam = Len(mlb_teams)
                     THEN /\ pc' = "built"
                          /\ runs' = IF runs < 2 THEN runs + 1 ELSE runs
                          /\ unchanged' = IF unchanged < 2 THEN unchanged + 1 ELSE unchanged
                     ELSE UNCHANGED <<pc, runs, unchanged>>
                  /\ UNCHANGED failed
    /\ UNCHANGED <<upstream, prevMap, changes, last>>

\* a variant of main that starts serving while the import-time build is running
Main_early ==
    /\ pc \in {"building", "built"}
    /\ \E operation \in {"test", "mcp", "missing"} :
         pc' = IF operation = "missing" THEN "exited" ELSE "serving"
    /\ UNCHANGED <<curteam, player2team, upstream, returned, failed, prevMap, runs,
                   unchanged, changes, last>>

\* main(): runs once the module-level code is through, that is after
\* initplayermap returned; without --operation it exits with status 2
Main ==
    /\ pc = "built"
    /\ \E operation \in {"test", "mcp", "missing"} :
         pc' = IF operation = "missing" THEN "exited" ELSE "serving"
    /\ UNCHANGED <<curteam, player2team, upstream, returned, failed, prevMap, runs,
                   unchanged, changes, last>>

Frame == UNCHANGED <<pc, curteam, player2team, upstream, returned, failed, prevMap,
                     runs, unchanged, changes>>

GetTeamForPlayer ==
    /\ pc = "serving"
    /\ last = NoCall
    /\ \E inPlayerID \in 0..(MaxPlayerId + 1) :
         last' = [op |-> "getTeamForPlayer", arg |-> <<inPlayerID>>,
                  out |-> Returned(getTeamForPlayer(player2team, inPlayerID))]
    /\ Frame

\* a variant of lookup_player_id that remembers the player it resolved
LookupPlayerId_caching ==
    /\ pc = "serving"
    /\ last = NoCall
    /\ \E reply \in SearchReplies :
         LET out == lookup_player_id(player2team, reply)
         IN  /\ last' = [op |-> "lookup_player_id", arg |-> <<reply>>, out |-> out]
             /\ player2team' =
                  IF IsRaised(out) \/ str(out.value.player_id) \in DOMAIN player2team
                  THEN player2team
                  ELSE player2team @@
                       (str(out.value.player_id) :>
                          [team_id |-> "Unknown", team_name |-> "Unknown",
                           player_name |-> out.value.player_name])
    /\ UNCHANGED <<pc, curteam, upstream, returned, failed, prevMap, runs, unchanged,
                   changes>>

LookupPlayerId ==
    /\ pc = "serving"
    /\ last = NoCall
    /\ \E reply \in SearchReplies :
         last' = [op |-> "lookup_player_id", arg |-> <<reply>>,
                  out |-> lookup_player_id(player2team, reply)]
    /\ Frame

\* the endpoint /mlb/playerid of the mounted router
LookupPlayer ==
    /\ pc = "serving"
    /\ last = NoCall
    /\ \E reply \in SearchReplies :
         last' = [op |-> "lookup_player", arg |-> <<reply>>, out |-> lookup_player(reply)]
    /\ Frame

GetPlayerBattingData ==
    /\ pc = "serving"
    /\ last = NoCall
    /\ \E player_id \in 1..(MaxPlayerId + 1) : \E reply \in PersonReplies(player_id) :
         last' = [op |-> "get_player_batting_data", arg |-> <<player_id, reply>>,
                  out |-> get_player_batting_data(player2team, player_id, reply)]
    /\ Frame

GetPlayerPitchingData ==
    /\ pc = "serving"
    /\ last = NoCall
    /\ \E player_id \in 1..(MaxPlayerId + 1) : \E reply \in PersonReplies(player_id) :
         last' = [op |-> "get_player_pitching_data", arg |-> <<player_id, reply>>,
                  out |-> get_player_pitching_data(player2team, player_id, reply)]
    /\ Frame

\* a call of a helper that asks the provider only for a team of the catalog
Called(op, arg, urls, out) == [op |-> op, arg |-> arg, requests |-> urls, out |-> out]

\* get_mlb_stats called on its own
GetMlbStats ==
    /\ pc = "serving"
    /\ last = NoCall
    /\ \E net \in FetchOutcomes :
       \E json \in (IF net = "ok" THEN PersonJson(1) \cup {RosterJson(upstream, 1)} ELSE {None}) :
         last' = [op |-> "get_mlb_stats", arg |-> <<net, json>>,
                  out |-> get_mlb_stats(net, json)]
    /\ Frame

GetTeamBattingData ==
    /\ pc = "serving"
    /\ last = NoCall
    /\ \E team_id \in TeamArgs, season \in SeasonArgs : \E reply \in TeamStatsReplies :
         last' = Called("get_team_batting_data", <<team_id, season, reply>>,
                        get_team_batting_data_requests(team_id, season),
                        get_team_batting_data(team_id, reply))
    /\ Frame

GetTeamPitchingData ==
    /\ pc = "serving"
    /\ last = NoCall
    /\ \E team_id \in TeamArgs, season \in SeasonArgs : \E reply \in TeamStatsReplies :
         last' = Called("get_team_pitching_data", <<team_id, season, reply>>,
                        get_team_pitching_data_requests(team_id, season),
                        get_team_pitching_data(team_id, reply))
    /\ Frame

\* get_roster called on its own, as main()'s test operation does
GetRoster ==
    /\ pc = "serving"
    /\ last = NoCall
    /\ \E team_id \in TeamArgs, season \in SeasonArgs :
       \E reply \in RosterReplies(upstream, 1) :
         last' = Called("get_roster", <<team_id, season, reply>>,
                        get_roster_requests(team_id, season), get_roster(team_id, reply))
    /\ Frame

CalculatePythagoreanWins ==
    /\ pc = "serving"
    /\ last = NoCall
    /\ \E rs \in RunTotals, ra \in RunTotals, g \in RunTotals :
         last' = [op |-> "calculate_pythagorean_wins", arg |-> <<rs, ra, g>>,
                  out |-> IF PythagoreanError(rs, ra, g) # "none"
                          THEN Raised(PythagoreanError(rs, ra, g))
                          ELSE Returned(calculate_pythagorean_wins(rs, ra, g))]
    /\ Frame

\* the team names and standings the process model asks about
FewQueries == {<<"a">>, <<"A", "b">>, <<"b", " ">>}

FewReplies ==
    { r \in StandingsReplies :
        \/ r.net = "conn_error"
        \/ /\ r.net = "ok" /\ "records" \in DOMAIN r.json /\ Len(r.json.records) = 2
           /\ r.json.records[1].teamRecords[1].team.id = 141 }

LookupTeamId ==
    /\ pc = "serving"
    /\ last = NoCall
    /\ \E team_name \in FewQueries : \E r103 \in FewReplies : \E r104 \in FewReplies :
         last' = [op |-> "lookup_team_id", arg |-> <<team_name, r103, r104>>,
                  out |-> lookup_team_id(team_name, r103, r104)]
    /\ Frame

\* the result goes back to the caller and the process is ready for the next call
Respond ==
    /\ last # NoCall
    /\ last' = NoCall
    /\ Frame

Next ==
    \/ BuildTeam
    \/ Main
    \/ GetTeamForPlayer
    \/ LookupPlayerId
    \/ LookupPlayer
    \/ GetPlayerBattingData
    \/ GetPlayerPitchingData
    \/ LookupTeamId
    \/ GetMlbStats
    \/ GetTeamBattingData
    \/ GetTeamPitchingData
    \/ GetRoster
    \/ CalculatePythagoreanWins
    \/ Respond

Spec == Init /\ [][Next]_vars

-----------------------------------------------------------------------------
(* initplayermap called again, over data that may have changed *)

\* initplayermap(): player2team is the module global, it is not reset
Rerun ==
    /\ pc \in {"built", "raised"}
    /\ pc' = "building"
    /\ curteam' = 1
    /\ returned' = {}
    /\ failed' = {}
    /\ prevMap' = player2team
    /\ UNCHANGED <<player2team, upstream, runs, unchanged, changes, last>>

\* between two runs the provider's data moves: a player joins or leaves one
\* team's roster, or the names are spelled another way
UpstreamChange ==
    /\ pc \in {"built", "raised"}
    /\ changes < MaxChanges
    /\ \/ \E t \in TeamIdx, p \in Players :
            upstream' = [upstream EXCEPT !.roster[t] =
                            IF p \in @ THEN @ \ {p} ELSE @ \cup {p}]
       \/ \E sfx \in NameSuffixes \ {upstream.suffix} :
            upstream' = [upstream EXCEPT !.suffix = sfx]
    /\ changes' = changes + 1
    /\ unchanged' = 0
    /\ UNCHANGED <<pc, curteam, player2team, returned, failed, prevMap, runs, last>>

NextRebuild ==
    \/ BuildTeam
    \/ Rerun
    \/ UpstreamChange

\* the names start out in one spelling
InitRebuild == Init /\ upstream.suffix = ""

SpecRebuild == InitRebuild /\ [][NextRebuild]_vars

-----------------------------------------------------------------------------
(* Team-name resolution on its own: every query against every pair of replies *)

InitTeam ==
    /\ pc = "serving"
    /\ curteam = Len(mlb_teams) + 1
    /\ player2team = EmptyDict
    /\ upstream = [roster |-> [t \in TeamIdx |-> {}], suffix |-> ""]
    /\ returned = {}
    /\ failed = {}
    /\ prevMap = EmptyDict
    /\ runs = 1
    /\ unchanged = 1
    /\ changes = 0
    /\ last = NoCall

ResolveByHelper ==
    /\ last = NoCall
    /\ \E team_name \in TeamQueries : \E r103 \in StandingsReplies : \E r104 \in StandingsReplies :
         last' = [op |-> "lookup_team_id", arg |-> <<team_name, r103, r104>>,
                  out |-> lookup_team_id(team_name, r103, r104)]
    /\ Frame

ResolveByEndpoint ==
    /\ last = NoCall
    /\ \E team_name \in TeamQueries : \E r103 \in StandingsReplies : \E r104 \in StandingsReplies :
         last' = [op |-> "lookup_team", arg |-> <<team_name, r103, r104>>,
                  out |-> lookup_team(team_name, r103, r104)]
    /\ Frame

NextTeam ==
    \/ ResolveByHelper
    \/ ResolveByEndpoint
    \/ Respond

SpecTeam == InitTeam /\ [][NextTeam]_vars

-----------------------------------------------------------------------------
(* The exposed tools of baseball_server: the season each one asks the provider for *)

\* an integer where Python allows None as well (Optional[int])
IntValue(n) == [int |-> n]

\* datetime.now().year at the time of the request
ClockYears == 2024..2027

\* the seasons a caller supplies: null, or a year
SeasonValues == {None} \cup {IntValue(n) : n \in {-1, 0, 1876, 1877, 1878} \cup 2023..2028}

\* the query string of a request: without or with the season parameter
SeasonQueries == {EmptyDict} \cup {[season |-> s] : s \in SeasonValues}

\* season: Optional[int] = 2025: the value the handler is called with
SeasonParameter(query) ==
    IF "season" \in DOMAIN query THEN query.season ELSE IntValue(2025)

\* a variant without the lower end of the range
ResolveSeason_unclamped(season, now) ==
    IF season # None /\ season.int < now THEN season.int ELSE now

\* useseason = datetime.now().year
\* if season is not None and season < useseason and season > 1876: useseason = season
ResolveSeason(season, now) ==
    IF season # None /\ season.int < now /\ season.int > 1876 THEN season.int ELSE now

\* get_mlb_standings: the two standings requests, one per league
get_mlb_standings(query, now) ==
    LET useseason == ResolveSeason(SeasonParameter(query), now)
    IN  [curleagueid \in 1..2 |->
            [path |-> "standings", leagueId |-> <<103, 104>>[curleagueid],
             season |-> str(useseason)]]

\* get_team_batting: the request of the team's hitting line
get_team_batting(team_id, query, now) ==
    LET useseason == ResolveSeason(SeasonParameter(query), now)
    IN  <<[path |-> "teams/" \o str(team_id) \o "/stats", group |-> "hitting",
           season |-> str(useseason)]>>

\* get_team_pitching: the request of the team's pitching line
get_team_pitching(team_id, query, now) ==
    LET useseason == ResolveSeason(SeasonParameter(query), now)
    IN  <<[path |-> "teams/" \o str(team_id) \o "/stats", group |-> "pitching",
           season |-> str(useseason)]>>

\* get_mlb_roster: the request of the team's 40-man roster
get_mlb_roster(team_id, query, now) ==
    LET useseason == ResolveSeason(SeasonParameter(query), now)
    IN  <<[path |-> "teams/" \o str(team_id) \o "/roster", rosterType |-> "40Man",
           season |-> str(useseason)]>>

\* get_player_batting: the request of the player's record with the hitting line
get_player_batting(player_id, query, now) ==
    LET useseason == ResolveSeason(SeasonParameter(query), now)
    IN  <<[path |-> "people/" \o str(player_id), group |-> "hitting",
           season |-> str(useseason)]>>

\* get_player_pitching: the request of the player's record with the pitching line
get_player_pitching(player_id, query, now) ==
    LET useseason == ResolveSeason(SeasonParameter(query), now)
    IN  <<[path |-> "people/" \o str(player_id), group |-> "pitching",
           season |-> str(useseason)]>>

-----------------------------------------------------------------------------
(* The exposed tools of baseball_server: what each makes of the provider's reply *)

\* raise HTTPException(status_code=500, detail=str(e))
HTTPException(status_code, detail) ==
    Raised([type |-> "HTTPException", status_code |-> status_code, detail |-> detail])

\* get_team_batting after the request: the reads of the split, in order
get_team_batting_result(team_id, reply) ==
    LET team_stats == get_mlb_stats(reply.net, reply.json)
    IN  IF TeamSplitError(team_stats) # "none"
        THEN HTTPException(500, TeamSplitError(team_stats))
        ELSE LET team_split == team_stats.stats[1].splits[1]
                 st == team_split.stat
             IN  IF "team" \notin DOMAIN team_split THEN HTTPException(500, KeyErrorText("team"))
                 ELSE IF FirstMissingKey(st, BattingStatKeys, 1) # "none"
                 THEN HTTPException(500, FirstMissingKey(st, BattingStatKeys, 1))
                 ELSE Returned([team_id |-> team_id, team_name |-> team_split.team.name,
                                games |-> st.gamesPlayed, home_runs |-> st.homeRuns,
                                walks |-> st.baseOnBalls, strikeouts |-> st.strikeOuts,
                                plate_appearances |-> st.plateAppearances])

\* get_team_pitching after the request
get_team_pitching_result(team_id, reply) ==
    LET team_stats == get_mlb_stats(reply.net, reply.json)
    IN  IF TeamSplitError(team_stats) # "none"
        THEN HTTPException(500, TeamSplitError(team_stats))
        ELSE LET team_split == team_stats.stats[1].splits[1]
                 st == team_split.stat
             IN  IF "team" \notin DOMAIN team_split THEN HTTPException(500, KeyErrorText("team"))
                 ELSE IF FirstMissingKey(st, PitchingStatKeys, 1) # "none"
                 THEN HTTPException(500, FirstMissingKey(st, PitchingStatKeys, 1))
                 ELSE Returned([team_id |-> team_id, team_name |-> team_split.team.name,
                                games |-> st.gamesPlayed, home_runs |-> st.homeRuns,
                                walks |-> st.baseOnBalls, strikeouts |-> st.strikeOuts])

\* the rosters the roster endpoint is asked about: the first team's is full
SampleUpstream ==
    [roster |-> [t \in TeamIdx |-> IF t = 1 THEN Players ELSE {}], suffix |-> ""]

\* get_mlb_roster after the request: no catalog test, the loop over the roster
get_mlb_roster_result(reply) ==
    LET roster_info == get_mlb_stats(reply.net, reply.json)
    IN  IF roster_info = None THEN HTTPException(500, NoneSubscriptText)
        ELSE IF "roster" \notin DOMAIN roster_info THEN HTTPException(500, KeyErrorText("roster"))
        ELSE LET r == roster_info.roster
                 ids == {r[i].person.id : i \in 1..Len(r)}
             IN  Returned([id \in ids |->
                     LET cur == r[CHOOSE i \in 1..Len(r) : r[i].person.id = id]
                     IN  [player_id |-> cur.person.id,
                          player_name |-> cur.person.fullName,
                          position |-> cur.position.name]])

\* the reads of player_stats['people'][0]... up to the split: the text of what raises
PersonError(player_stats) ==
    IF player_stats = None THEN NoneSubscriptText
    ELSE IF "people" \notin DOMAIN player_stats THEN KeyErrorText("people")
    ELSE IF Len(player_stats.people) = 0 THEN IndexErrorText
    ELSE IF /\ "stats" \in DOMAIN player_stats.people[1]
            /\ Len(player_stats.people[1].stats[1].splits) = 0 THEN IndexErrorText
    ELSE "none"

\* get_player_batting after the request: the else branch zeroes the fields by hand
get_player_batting_result(player_id, reply) ==
    LET player_stats == get_mlb_stats(reply.net, reply.json)
    IN  IF PersonError(player_stats) # "none" THEN HTTPException(500, PersonError(player_stats))
        ELSE LET person == player_stats.people[1]
                 ident == [player_id |-> player_id, player_name |-> person.fullName,
                           age |-> person.currentAge]
             IN  IF "stats" \in DOMAIN person
                 THEN LET st == person.stats[1].splits[1].stat
                      IN  IF FirstMissingKey(st, BattingStatKeys, 1) # "none"
                          THEN HTTPException(500, FirstMissingKey(st, BattingStatKeys, 1))
                          ELSE Returned([games |-> st.gamesPlayed, home_runs |-> st.homeRuns,
                                         walks |-> st.baseOnBalls, strikeouts |-> st.strikeOuts,
                                         plate_appearances |-> st.plateAppearances] @@ ident)
                 ELSE Returned([games |-> 0, home_runs |-> 0, walks |-> 0, strikeouts |-> 0,
                                plate_appearances |-> 0] @@ ident)

\* get_player_pitching after the request
get_player_pitching_result(player_id, reply) ==
    LET player_stats == get_mlb_stats(reply.net, reply.json)
    IN  IF PersonError(player_stats) # "none" THEN HTTPException(500, PersonError(player_stats))
        ELSE LET person == player_stats.people[1]
                 ident == [player_id |-> player_id, player_name |-> person.fullName,
                           age |-> person.currentAge]
             IN  IF "stats" \in DOMAIN person
                 THEN LET st == person.stats[1].splits[1].stat
                      IN  IF FirstMissingKey(st, PitchingStatKeys, 1) # "none"
                          THEN HTTPException(500, FirstMissingKey(st, PitchingStatKeys, 1))
                          ELSE Returned([games |-> st.gamesPlayed, home_runs |-> st.homeRuns,
                                         walks |-> st.baseOnBalls,
                                         strikeouts |-> st.strikeOuts] @@ ident)
                 ELSE Returned([games |-> 0, home_runs |-> 0, walks |-> 0,
                                strikeouts |-> 0] @@ ident)

\* the team records of the standings documents the endpoint is given
LeagueTeams ==
    << [team |-> [id |-> 141, name |-> "Toronto Blue Jays"],
        leagueRecord |-> [wins |-> 2, losses |-> 1], runsScored |-> 3, runsAllowed |-> 2],
       [team |-> [id |-> 147, name |-> "New York Yankees"],
        leagueRecord |-> [wins |-> 0, losses |-> 0], runsScored |-> 0, runsAllowed |-> 0],
       [team |-> [id |-> 111, name |-> "Boston Red Sox"], runsScored |-> 1, runsAllowed |-> 1] >>

LeagueReplies ==
    { [net |-> "conn_error", json |-> None],
      [net |-> "ok", json |-> [message |-> "Object not found"]],
      [net |-> "ok", json |-> [records |-> <<>>]],
      [net |-> "ok", json |-> [records |-> <<[teamRecords |-> <<LeagueTeams[1]>>]>>]],
      [net |-> "ok", json |-> [records |-> <<[teamRecords |-> <<LeagueTeams[1]>>],
                                             [teamRecords |-> <<LeagueTeams[2]>>]>>]],
      [net |-> "ok", json |-> [records |-> <<[teamRecords |-> <<LeagueTeams[2], LeagueTeams[3]>>]>>]] }

TeamRecordKeys == <<"team", "leagueRecord", "runsScored", "runsAllowed">>

\* subleague_standings['records'] and the reads of each team record: the text
\* of the first thing that raises while the league's document is gone through
RECURSIVE TeamRecordError(_, _)
TeamRecordError(teams, i) ==
    IF i > Len(teams) THEN "none"
    ELSE IF FirstMissingKey(teams[i], TeamRecordKeys, 1) # "none"
    THEN FirstMissingKey(teams[i], TeamRecordKeys, 1)
    ELSE TeamRecordError(teams, i + 1)

LeagueError(subleague_standings) ==
    IF subleague_standings = None THEN NoneSubscriptText
    ELSE IF "records" \notin DOMAIN subleague_standings THEN KeyErrorText("records")
    ELSE TeamRecordError(TeamRecords(subleague_standings.records, 1), 1)

\* team_dict of one team record, with the Pythagorean wins and losses of the server's copy
TeamDict(curteamdata) ==
    LET wins == curteamdata.leagueRecord.wins
        losses == curteamdata.leagueRecord.losses
        curpyth == baseball_server_calculate_pythagorean_wins(
                       curteamdata.runsScored, curteamdata.runsAllowed, wins + losses)
    IN  [team_id |-> curteamdata.team.id, team_name |-> curteamdata.team.name,
         wins |-> wins, losses |-> losses,
         runs_scored |-> curteamdata.runsScored, runs_allowed |-> curteamdata.runsAllowed,
         pythagorean_wins |-> curpyth.pythagorean_wins,
         pythagorean_losses |-> curpyth.pythagorean_losses]

\* team_data[team_dict['team_id']] = team_dict, for the teams in the order listed
TeamData(teams) ==
    LET ids == {teams[i].team.id : i \in 1..Len(teams)}
    IN  [id \in ids |->
            TeamDict(teams[CHOOSE i \in 1..Len(teams) :
                             /\ teams[i].team.id = id
                             /\ \A j \in (i + 1)..Len(teams) : teams[j].team.id # id])]

\* a variant that answers with the teams gathered before the failure
get_mlb_standings_result_partial(r103, r104) ==
    LET d103 == get_mlb_stats(r103.net, r103.json)
        d104 == get_mlb_stats(r104.net, r104.json)
    IN  IF LeagueError(d103) # "none" THEN Returned(EmptyDict)
        ELSE IF LeagueError(d104) # "none"
        THEN Returned(TeamData(TeamRecords(d103.records, 1)))
        ELSE Returned(TeamData(TeamRecords(d103.records, 1) \o TeamRecords(d104.records, 1)))

\* get_mlb_standings after the season is resolved: the loop over the two leagues
get_mlb_standings_result(r103, r104) ==
    LET d103 == get_mlb_stats(r103.net, r103.json)
        d104 == get_mlb_stats(r104.net, r104.json)
    IN  IF LeagueError(d103) # "none" THEN HTTPException(500, LeagueError(d103))
        ELSE IF LeagueError(d104) # "none" THEN HTTPException(500, LeagueError(d104))
        ELSE Returned(TeamData(TeamRecords(d103.records, 1) \o TeamRecords(d104.records, 1)))

\* the team and player identifiers the requests of the model name
SomeTeamIds == {141, 147}

SomePlayerIds == 1..2

\* a call of an endpoint: the requests the handler sends to the provider and
\* what it answers the caller with
Asked(op, arg, urls, result) ==
    [op |-> op, arg |-> arg, out |-> [requests |-> urls, result |-> result]]

GetMlbStandings ==
    /\ last = NoCall
    /\ \E query \in SeasonQueries, now \in ClockYears :
       \E r103 \in LeagueReplies, r104 \in LeagueReplies :
         last' = Asked("get_mlb_standings", <<0, query, now, r103, r104>>,
                       get_mlb_standings(query, now), get_mlb_standings_result(r103, r104))
    /\ Frame

GetTeamBatting ==
    /\ last = NoCall
    /\ \E team_id \in SomeTeamIds, query \in SeasonQueries, now \in ClockYears :
       \E reply \in TeamStatsReplies :
         last' = Asked("get_team_batting", <<team_id, query, now, reply>>,
                       get_team_batting(team_id, query, now),
                       get_team_batting_result(team_id, reply))
    /\ Frame

GetTeamPitching ==
    /\ last = NoCall
    /\ \E team_id \in SomeTeamIds, query \in SeasonQueries, now \in ClockYears :
       \E reply \in TeamStatsReplies :
         last' = Asked("get_team_pitching", <<team_id, query, now, reply>>,
                       get_team_pitching(team_id, query, now),
                       get_team_pitching_result(team_id, reply))
    /\ Frame

GetMlbRoster ==
    /\ last = NoCall
    /\ \E team_id \in SomeTeamIds, query \in SeasonQueries, now \in ClockYears :
       \E reply \in RosterReplies(SampleUpstream, CHOOSE t \in TeamIdx : mlb_teams[t].id = str(team_id)) :
         last' = Asked("get_mlb_roster", <<team_id, query, now, reply>>,
                       get_mlb_roster(team_id, query, now), get_mlb_roster_result(reply))
    /\ Frame

GetPlayerBatting ==
    /\ last = NoCall
    /\ \E player_id \in SomePlayerIds, query \in SeasonQueries, now \in ClockYears :
       \E reply \in PersonReplies(player_id) :
         last' = Asked("get_player_batting", <<player_id, query, now, reply>>,
                       get_player_batting(player_id, query, now),
                       get_player_batting_result(player_id, reply))
    /\ Frame

GetPlayerPitching ==
    /\ last = NoCall
    /\ \E player_id \in SomePlayerIds, query \in SeasonQueries, now \in ClockYears :
       \E reply \in PersonReplies(player_id) :
         last' = Asked("get_player_pitching", <<player_id, query, now, reply>>,
                       get_player_pitching(player_id, query, now),
                       get_player_pitching_result(player_id, reply))
    /\ Frame

\* lookup_team_id: the two standings requests; the season is part of the literal
lookup_team_id_requests ==
    [curleagueid \in 1..2 |->
        [path |-> "standings", leagueId |-> <<103, 104>>[curleagueid], season |-> "2025"]]

\* lookup_team: the same two requests in the endpoint's copy
lookup_team_requests ==
    [curleagueid \in 1..2 |->
        [path |-> "standings", leagueId |-> <<103, 104>>[curleagueid], season |-> "2025"]]

\* the helper called in the year now; it does not read the clock
LookupTeamIdInYear ==
    /\ last = NoCall
    /\ \E team_name \in FewQueries, now \in ClockYears :
       \E r103 \in FewReplies, r104 \in FewReplies :
         last' = Asked("lookup_team_id", <<team_name, r103, r104, now>>,
                       lookup_team_id_requests, lookup_team_id(team_name, r103, r104))
    /\ Frame

\* the endpoint /mlb/teamid called in the year now
LookupTeamInYear ==
    /\ last = NoCall
    /\ \E team_name \in FewQueries, now \in ClockYears :
       \E r103 \in FewReplies, r104 \in FewReplies :
         last' = Asked("lookup_team", <<team_name, r103, r104, now>>,
                       lookup_team_requests, lookup_team(team_name, r103, r104))
    /\ Frame

NextSeason ==
    \/ GetMlbStandings
    \/ GetTeamBatting
    \/ GetTeamPitching
    \/ GetMlbRoster
    \/ GetPlayerBatting
    \/ GetPlayerPitching
    \/ LookupTeamIdInYear
    \/ LookupTeamInYear
    \/ Respond

SpecSeason == InitTeam /\ [][NextSeason]_vars

-----------------------------------------------------------------------------
(* The Pythagorean expectation on its own: both copies over every input *)

PythagoreanByHelper ==
    /\ last = NoCall
    /\ \E rs \in RunTotals, ra \in RunTotals, g \in GameTotals :
         last' = [op |-> "calculate_pythagorean_wins", arg |-> <<rs, ra, g>>,
                  out |-> IF PythagoreanError(rs, ra, g) # "none"
                          THEN Raised(PythagoreanError(rs, ra, g))
                          ELSE Returned(calculate_pythagorean_wins(rs, ra, g))]
    /\ Frame

PythagoreanByServer ==
    /\ last = NoCall
    /\ \E rs \in RunTotals, ra \in RunTotals, g \in GameTotals :
         last' = [op |-> "baseball_server.calculate_pythagorean_wins", arg |-> <<rs, ra, g>>,
                  out |-> IF PythagoreanError(rs, ra, g) # "none"
                          THEN Raised(PythagoreanError(rs, ra, g))
                          ELSE Returned(baseball_server_calculate_pythagorean_wins(rs, ra, g))]
    /\ Frame

NextPythagorean ==
    \/ PythagoreanByHelper
    \/ PythagoreanByServer
    \/ Respond

SpecPythagorean == InitTeam /\ [][NextPythagorean]_vars

\* the helpers and the copies of them that baseball_server.py carries, side by side
NextDuplicates ==
    \/ ResolveByHelper
    \/ ResolveByEndpoint
    \/ PythagoreanByHelper
    \/ PythagoreanByServer
    \/ Respond

SpecDuplicates == InitTeam /\ [][NextDuplicates]_vars

-----------------------------------------------------------------------------
(* The index builder: claims C1 to C5 *)

Finished == pc \in {"built", "serving", "exited"}

Keys(ids) == {str(p) : p \in ids}

Rostered == UNION {upstream.roster[t] : t \in TeamIdx}

\* C1: when the roster request of a team fails, initplayermap goes on with the
\* remaining teams: the build does not end in an exception, and once it is
\* through every player of the other teams' rosters is a key of player2team.
C1_FailedRosterIsSwallowed ==
    failed # {} =>
        /\ pc # "raised"
        /\ Finished =>
             \A t \in TeamIdx \ failed : Keys(upstream.roster[t]) \subseteq DOMAIN player2team

\* C2: after a second run of initplayermap the keys of player2team are exactly
\* the player identifiers the roster requests of that run returned.
C2_RerunOverwrites ==
    (pc = "built" /\ runs = 2) => DOMAIN player2team = Keys(returned)

\* C3: after a build pass in which every roster request succeeded, each player
\* of each team's roster is a key of player2team, as a string, and the entry
\* carries a catalog team that rosters the player and the player's full name.
C3_RosteredPlayersIndexed ==
    Finished =>
        \A t \in TeamIdx : \A p \in upstream.roster[t] :
            /\ str(p) \in DOMAIN player2team
            /\ DOMAIN player2team[str(p)] = {"team_id", "team_name", "player_name"}
            /\ \E u \in TeamIdx :
                 /\ p \in upstream.roster[u]
                 /\ player2team[str(p)].team_id = mlb_teams[u].id
                 /\ player2team[str(p)].team_name = mlb_teams[u].name
            /\ player2team[str(p)].player_name = fullName(p, upstream.suffix)

C3_Witness ==
    /\ pc = "built"
    /\ \E p \in Players : p \in upstream.roster[1] /\ p \in upstream.roster[Len(mlb_teams)]
    /\ \E t \in TeamIdx : upstream.roster[t] = {}
    /\ DOMAIN player2team = Keys(Players)

\* C4: a player identifier that is on none of the rosters at build time is
\* never a key of player2team, and getTeamForPlayer answers it with the triple
\* of "Unknown".
C4_AbsentPlayerIsUnknown ==
    \A p \in 0..(MaxPlayerId + 1) :
        p \notin Rostered =>
            /\ str(p) \notin DOMAIN player2team
            /\ (last.op = "getTeamForPlayer" /\ last.arg = <<p>>) =>
                 last.out = Returned([team_id |-> "Unknown", team_name |-> "Unknown",
                                      player_name |-> "Unknown"])

C4_Witness ==
    /\ last.op = "getTeamForPlayer"
    /\ last.arg[1] \in Players \ Rostered
    /\ player2team # EmptyDict
    /\ last.out.value.team_id = "Unknown"

\* C5: two runs of initplayermap in succession over unchanged roster data
\* leave the same player2team: the same keys with the same three fields.
C5_RebuildIsIdempotent ==
    (pc = "built" /\ unchanged = 2) => player2team = prevMap

C5_Witness ==
    /\ pc = "built"
    /\ unchanged = 2
    /\ changes > 0
    /\ \E p \in Players : p \in upstream.roster[1] /\ p \in upstream.roster[Len(mlb_teams)]
    /\ Keys(Rostered) # DOMAIN player2team

-----------------------------------------------------------------------------
(* Startup order and the read-only index: claims C6 and C7 *)

IndexReaders ==
    {"getTeamForPlayer", "lookup_player_id", "get_player_batting_data",
     "get_player_pitching_data"}

\* C6: a lookup is served only after the one import-time run of initplayermap
\* has gone through the whole catalog; no lookup sees a map that is being built.
C6_BuiltBeforeServing ==
    /\ last.op # "none" => pc = "serving"
    /\ pc = "serving" => (curteam = Len(mlb_teams) + 1 /\ runs = 1 /\ failed = {})

C6_Witness ==
    /\ last.op = "get_player_pitching_data"
    /\ ~IsRaised(last.out)
    /\ "team_id" \in DOMAIN last.out.value
    /\ Cardinality(DOMAIN player2team) > 1

\* C7: the lookups and the statistics operations leave player2team as it is,
\* whatever the provider answers and whether they return or raise.
C7_LookupsLeaveIndexAlone ==
    [][(last' # last /\ last'.op \in IndexReaders \cup {"lookup_team_id",
                                                      "calculate_pythagorean_wins"})
          => player2team' = player2team]_vars

C7_Witness ==
    /\ last.op = "lookup_player_id"
    /\ IsRaised(last.out)
    /\ player2team # EmptyDict

-----------------------------------------------------------------------------
(* Team-name resolution: claims C8 to C10 *)

\* a team-name call that returned, over two standings documents
TeamCall == last.op \in {"lookup_team_id", "lookup_team"} /\ ~IsRaised(last.out)

Query == strip(lower(last.arg[1]))

\* the team records in the order the two documents list them
Listing ==
    TeamRecords(last.arg[2].json.records, 1) \o TeamRecords(last.arg[3].json.records, 1)

Folded(i) == strip(lower(Listing[i].team.name))

\* where each case-folded name shows up first: the iteration order of name2id
Entries == {i \in 1..Len(Listing) : \A j \in 1..(i - 1) : Folded(j) # Folded(i)}

\* the team a case-folded name stands for: the last one listed under it
TeamOf(i) ==
    LET k == CHOOSE j \in 1..Len(Listing) :
                 /\ Folded(j) = Folded(i)
                 /\ \A m \in (j + 1)..Len(Listing) : Folded(m) # Folded(i)
    IN  [team_id |-> Listing[k].team.id, team_name |-> Listing[k].team.name]

Exact == {i \in Entries : Folded(i) = Query}

Containing == {i \in Entries : contains(Folded(i), Query)}

Earliest(S) == CHOOSE i \in S : \A j \in S : i <= j

Latest(S) == CHOOSE i \in S : \A j \in S : j <= i

\* C8 as the specification states it: with no exact match and several names
\* containing the input, the result is the first such entry in iteration order.
C8_FirstContainingEntry ==
    (TeamCall /\ Exact = {} /\ Cardinality(Containing) > 1) =>
        last.out.value = TeamOf(Earliest(Containing))

\* C8: with no exact match and several case-folded names containing the input,
\* the result is the last such entry in the iteration order of name2id.
C8_LastContainingEntry ==
    (TeamCall /\ Exact = {} /\ Cardinality(Containing) > 1) =>
        last.out.value = TeamOf(Latest(Containing))

C8_Witness ==
    /\ TeamCall
    /\ last.op = "lookup_team"
    /\ Exact = {}
    /\ Cardinality(Containing) > 1
    /\ Query # <<>>
    /\ last.out.value.team_id = 111

\* C9: when a case-folded catalog name equals the case-folded, trimmed input,
\* the result is that team, also when other names contain the input.
C9_ExactMatchWins ==
    (TeamCall /\ Exact # {}) => last.out.value = TeamOf(Earliest(Exact))

C9_Witness ==
    /\ TeamCall
    /\ Exact # {}
    /\ last.arg[1] # Query
    /\ \E i \in Containing : i > Earliest(Exact)
    /\ last.out.value.team_id = 141

\* C10: with no exact match and exactly one case-folded name containing the
\* input, the result is that team's identifier and its display name as listed.
C10_SingleContainingEntry ==
    (TeamCall /\ Exact = {} /\ Cardinality(Containing) = 1) =>
        \E i \in 1..Len(Listing) :
            /\ contains(strip(lower(Listing[i].team.name)), Query)
            /\ last.out.value = [team_id |-> Listing[i].team.id,
                                 team_name |-> Listing[i].team.name]

C10_Witness ==
    /\ TeamCall
    /\ Exact = {}
    /\ Cardinality(Containing) = 1
    /\ Len(Listing) > 1
    /\ last.out.value.team_name = <<"b", "A">>

\* a team-name call over two standings documents that both list their records
TeamAsked ==
    /\ last.op \in {"lookup_team_id", "lookup_team"}
    /\ SubscriptError(get_mlb_stats(last.arg[2].net, last.arg[2].json)) = "none"
    /\ SubscriptError(get_mlb_stats(last.arg[3].net, last.arg[3].json)) = "none"

\* C11: when the case-folded, trimmed input neither equals nor is part of any
\* case-folded name of the listing, the lookup returns the empty result, with
\* neither team_id nor team_name, and raises nothing.
C11_NoMatchIsEmpty ==
    (TeamAsked /\ Containing = {}) => last.out = Returned(EmptyDict)

C11_Witness ==
    /\ TeamAsked
    /\ last.op = "lookup_team"
    /\ Len(Listing) > 1
    /\ Query # <<>>
    /\ last.arg[1] # Query
    /\ Containing = {}

-----------------------------------------------------------------------------
(* Season resolution of the exposed tools: claims C12 and C13 *)

SeasonTools ==
    {"get_mlb_standings", "get_team_batting", "get_team_pitching", "get_mlb_roster",
     "get_player_batting", "get_player_pitching"}

SeasonCall == last.op \in SeasonTools

\* every request of the call asks the provider for the season y
AsksFor(y) ==
    \A i \in 1..Len(last.out.requests) : last.out.requests[i].season = str(y)

\* C12: a request without the season parameter asks the provider for the
\* current calendar year, whatever the current year is.
C12_AbsentSeasonIsCurrentYear ==
    (SeasonCall /\ "season" \notin DOMAIN last.arg[2]) => AsksFor(last.arg[3])

\* C13: a supplied season s is used as it is exactly when 1877 <= s < current
\* year; a supplied null, a season below 1877 and a season at or above the
\* current year are replaced by the current year.
C13_SuppliedSeasonClamped ==
    (SeasonCall /\ "season" \in DOMAIN last.arg[2]) =>
        LET s == last.arg[2].season
            now == last.arg[3]
        IN  IF s \in {IntValue(n) : n \in 1877..(now - 1)}
            THEN AsksFor(s.int)
            ELSE AsksFor(now)

C13_Witness ==
    /\ last.op = "get_player_pitching"
    /\ last.arg[2] = [season |-> IntValue(1877)]
    /\ last.out.requests[1].season = "1877"

-----------------------------------------------------------------------------
(* The lookups: claims C14 to C17 *)

LookupOps == {"lookup_player_id", "lookup_player", "lookup_team_id", "getTeamForPlayer"}

\* C14: the player-name lookup, the team-name lookup and the lookup of a
\* player's team never raise, whatever the provider answers: a failed request
\* too ends in an empty or sentinel result.
C14_LookupsNeverRaise ==
    last.op \in LookupOps => ~IsRaised(last.out)

PlayerCall == last.op \in {"lookup_player_id", "lookup_player"}

\* the search document of a player call, None when the request failed
SearchDoc == get_mlb_stats(last.arg[1].net, last.arg[1].json)

Matches == IF "people" \in DOMAIN SearchDoc THEN SearchDoc.people ELSE <<>>

\* C15: when the name search brings back no match (no people key, or an empty
\* list) the result is exactly the name "NA" and the identifier 0, without
\* team_id and team_name, whatever player2team holds.
C15_NoMatchIsSentinel ==
    (PlayerCall /\ SearchDoc # None /\ Len(Matches) = 0) =>
        last.out = Returned([player_name |-> "NA", player_id |-> 0])

C15_Witness ==
    /\ last.op = "lookup_player_id"
    /\ last.arg[1].net = "ok"
    /\ "people" \notin DOMAIN last.arg[1].json
    /\ DOMAIN player2team = Keys(Players)
    /\ last.out.value.player_id = 0

\* C16: when the identifier of the resolved player is a key of player2team the
\* result carries that entry's team_id and team_name, and when it is not the
\* result carries player_name and player_id only; for the helper
\* lookup_player_id and for the endpoint lookup_player.
C16_ResolvedPlayerEnriched ==
    (PlayerCall /\ SearchDoc # None /\ Len(Matches) > 0) =>
        LET key == str(Matches[1].id)
        IN  /\ ~IsRaised(last.out)
            /\ IF key \in DOMAIN player2team
               THEN /\ DOMAIN last.out.value =
                         {"player_name", "player_id", "team_id", "team_name"}
                    /\ last.out.value.team_id = player2team[key].team_id
                    /\ last.out.value.team_name = player2team[key].team_name
               ELSE DOMAIN last.out.value = {"player_name", "player_id"}

\* C17: when the search brings back one match or more, player_name and
\* player_id of the result are those of the first match of the list.
C17_FirstMatchTaken ==
    (PlayerCall /\ SearchDoc # None /\ Len(Matches) > 0) =>
        /\ ~IsRaised(last.out)
        /\ last.out.value.player_name = Matches[1].fullName
        /\ last.out.value.player_id = Matches[1].id

C17_Witness ==
    /\ last.op = "lookup_player"
    /\ SearchDoc # None
    /\ Len(Matches) = 2
    /\ Matches[1].id # Matches[2].id
    /\ last.out.value.player_id = Matches[1].id
    /\ str(Matches[2].id) \in DOMAIN player2team

-----------------------------------------------------------------------------
(* The Pythagorean expectation: claims C18 to C20 *)

PythagoreanCall ==
    last.op \in {"calculate_pythagorean_wins", "baseball_server.calculate_pythagorean_wins"}

RunsScored == last.arg[1]

RunsAllowed == last.arg[2]

GamesPlayed == last.arg[3]

Positive == RunsScored > 0 /\ RunsAllowed > 0 /\ GamesPlayed > 0

\* C18: when runs_scored, runs_allowed or games_played is zero or negative
\* the result is exactly 0 wins, 0 losses and a percentage of 0.0, whatever
\* the other two inputs are.
C18_NonPositiveInputIsZero ==
    (PythagoreanCall /\ ~Positive) =>
        /\ DOMAIN last.out.value =
              {"pythagorean_wins", "pythagorean_losses", "pythagorean_win_pct"}
        /\ last.out.value.pythagorean_wins = 0
        /\ last.out.value.pythagorean_losses = 0
        /\ last.out.value.pythagorean_win_pct.num = 0

C18_Witness ==
    /\ last.op = "calculate_pythagorean_wins"
    /\ last.arg = <<3, 1, -1>>
    /\ last.out.value.pythagorean_losses = 0

\* C19: for positive runs_scored, runs_allowed and games_played the wins and
\* the losses of the result add up to games_played.
C19_WinsAndLossesAddUp ==
    (PythagoreanCall /\ Positive) =>
        last.out.value.pythagorean_wins + last.out.value.pythagorean_losses = GamesPlayed

C19_Witness ==
    /\ last.op = "baseball_server.calculate_pythagorean_wins"
    /\ last.arg = <<3, 2, MaxGames>>
    /\ last.out.value.pythagorean_wins > last.out.value.pythagorean_losses
    /\ last.out.value.pythagorean_losses > 0

\* round(games / 2) as Python rounds: a half goes to the even neighbour
HalfOf(games) ==
    IF games % 2 = 0 THEN games \div 2
    ELSE IF ((games - 1) \div 2) % 2 = 0 THEN (games - 1) \div 2
    ELSE (games + 1) \div 2

-----------------------------------------------------------------------------
(* The Pythagorean expectation never fails: claim C21 *)

-----------------------------------------------------------------------------
(* The statistics endpoints fail loudly: claim C22 *)

\* the provider's replies of the call, in the order the handler asked
RepliesOf ==
    IF last.op = "get_mlb_standings" THEN <<last.arg[4], last.arg[5]>> ELSE <<last.arg[4]>>

\* the key the handler subscripts the document with first
TopKey ==
    CASE last.op = "get_mlb_standings" -> "records"
      [] last.op \in {"get_team_batting", "get_team_pitching"} -> "stats"
      [] last.op = "get_mlb_roster" -> "roster"
      [] OTHER -> "people"

AnyReplyFailed ==
    \E i \in 1..Len(RepliesOf) :
        RepliesOf[i].net # "ok" \/ TopKey \notin DOMAIN RepliesOf[i].json

\* the fields of a full record of each tool, as far as the model follows them
FullRecord(value) ==
    CASE last.op = "get_mlb_standings" ->
           \A id \in DOMAIN value :
               DOMAIN value[id] = {"team_id", "team_name", "wins", "losses", "runs_scored",
                                   "runs_allowed", "pythagorean_wins", "pythagorean_losses"}
      [] last.op = "get_team_batting" ->
           DOMAIN value = {"team_id", "team_name", "games", "home_runs", "walks",
                           "strikeouts", "plate_appearances"}
      [] last.op = "get_team_pitching" ->
           DOMAIN value = {"team_id", "team_name", "games", "home_runs", "walks", "strikeouts"}
      [] last.op = "get_mlb_roster" ->
           /\ DOMAIN value = {last.arg[4].json.roster[i].person.id :
                                i \in 1..Len(last.arg[4].json.roster)}
           /\ \A id \in DOMAIN value :
                  DOMAIN value[id] = {"player_id", "player_name", "position"}
      [] last.op = "get_player_batting" ->
           DOMAIN value = {"player_id", "player_name", "age", "games", "home_runs", "walks",
                           "strikeouts", "plate_appearances"}
      [] OTHER ->
           DOMAIN value = {"player_id", "player_name", "age", "games", "home_runs", "walks",
                           "strikeouts"}

\* C22: the statistics endpoints answer every failure, a failed request and a
\* document of another shape alike, with an HTTP 500 error whose detail is the
\* text of the exception underneath; what they return otherwise is a full
\* record, never a part of one.
C22_FailuresAreHttp500 ==
    SeasonCall =>
        LET res == last.out.result
        IN  /\ AnyReplyFailed => IsRaised(res)
            /\ IsRaised(res) =>
                 /\ res.raised.type = "HTTPException"
                 /\ res.raised.status_code = 500
                 /\ RepliesOf[1].net # "ok" => res.raised.detail = NoneSubscriptText
                 /\ (RepliesOf[1].net = "ok" /\ TopKey \notin DOMAIN RepliesOf[1].json) =>
                        res.raised.detail = KeyErrorText(TopKey)
            /\ ~IsRaised(res) => FullRecord(res.value)

C22_Witness ==
    /\ last.op = "get_mlb_standings"
    /\ last.arg[4].net = "ok"
    /\ "records" \in DOMAIN last.arg[4].json
    /\ Len(last.arg[4].json.records) = 2
    /\ last.arg[5].net = "conn_error"
    /\ IsRaised(last.out.result)
    /\ last.out.result.raised.detail = NoneSubscriptText

-----------------------------------------------------------------------------
(* The season of the team-name lookup: claim C23 *)

\* C23: the team-name lookup builds its map from the standings of the current
\* season of both leagues: the two requests name the leagues 103 and 104 and
\* the season they ask for is the current calendar year, whatever that year is.
C23_TeamLookupAsksCurrentSeason ==
    last.op \in {"lookup_team_id", "lookup_team"} =>
        /\ Len(last.out.requests) = 2
        /\ last.out.requests[1].leagueId = 103
        /\ last.out.requests[2].leagueId = 104
        /\ \A i \in 1..2 : last.out.requests[i].season = str(last.arg[4])

\* the helpers that fetch a season's batting or pitching line
PlayerStatOps == {"get_player_batting_data", "get_player_pitching_data"}

TeamStatOps == {"get_team_batting_data", "get_team_pitching_data"}

\* the document the provider sent for the call in last, None when it sent none
ReplyDoc == last.arg[Len(last.arg)].json

\* the provider answered, and holds no statistics for the player or team asked
\* about: no 'stats' key, or a 'stats' entry whose 'splits' list is empty
NoStatistics ==
    /\ last # NoCall
    /\ last.op \in PlayerStatOps \cup TeamStatOps
    /\ ReplyDoc # None
    /\ \/ /\ last.op \in PlayerStatOps
          /\ "people" \in DOMAIN ReplyDoc
          /\ Len(ReplyDoc.people) > 0
          /\ \/ "stats" \notin DOMAIN ReplyDoc.people[1]
             \/ Len(ReplyDoc.people[1].stats[1].splits) = 0
       \/ /\ last.op \in TeamStatOps
          /\ InCatalog(str(last.arg[1]))
          /\ \/ "stats" \notin DOMAIN ReplyDoc
             \/ /\ Len(ReplyDoc.stats) > 0
                /\ Len(ReplyDoc.stats[1].splits) = 0

\* every statistic of the record is at its zero default
Zeroed(record) ==
    LET defaults == IF last.op \in {"get_player_batting_data", "get_team_batting_data"}
                    THEN init_batting_stats ELSE init_pitching_stats
    IN  \A k \in DOMAIN defaults : k \in DOMAIN record /\ record[k] = defaults[k]

\* C24: when the provider has no statistics for the player or team (no 'stats'
\* key, or an empty 'splits' list), the batting or pitching operation returns
\* the identifying fields with every statistic at its zero default and does
\* not fail
C24_MissingStatsFallBack ==
    NoStatistics =>
        /\ ~IsRaised(last.out)
        /\ Zeroed(last.out.value)
        /\ last.op \in PlayerStatOps => last.out.value.player_id = last.arg[1]
        /\ last.op \in TeamStatOps => "team_id" \in DOMAIN last.out.value

\* the part of C24 that the code does: a player document without a 'stats' key
C24_PlayerWithoutStatsKey ==
    (NoStatistics /\ last.op \in PlayerStatOps /\ "stats" \notin DOMAIN ReplyDoc.people[1]) =>
        /\ ~IsRaised(last.out)
        /\ Zeroed(last.out.value)

\* C25: get_mlb_stats never raises: on a transport failure, an HTTP error
\* status or an unparsable body it returns None, and on success it returns the
\* parsed JSON document
C25_FetchNeverRaises ==
    (last # NoCall /\ last.op = "get_mlb_stats") =>
        /\ ~IsRaised(last.out)
        /\ last.arg[1] = "ok" => last.out = last.arg[2]
        /\ last.arg[1] # "ok" => last.out = None

C25_Witness ==
    /\ last # NoCall
    /\ last.op = "get_mlb_stats"
    /\ last.arg[1] = "conn_error"
    /\ last.out = None

\* the helpers that test the team identifier against the catalog
CatalogCheckedOps == {"get_team_batting_data", "get_team_pitching_data", "get_roster"}

\* C26: for a team identifier outside the catalog, get_team_batting_data and
\* get_team_pitching_data return all-zero statistics with team_name "Unknown",
\* get_roster returns an empty map, and none of the three issues a request
\* to the provider or raises
C26_UnknownTeamAsksNothing ==
    (last # NoCall /\ last.op \in CatalogCheckedOps /\ ~InCatalog(str(last.arg[1]))) =>
        /\ ~IsRaised(last.out)
        /\ last.requests = <<>>
        /\ last.op = "get_roster" => last.out.value = EmptyDict
        /\ last.op \in TeamStatOps =>
             /\ last.out.value.team_name = "Unknown"
             /\ Zeroed(last.out.value)

\* an unknown team is asked about while the provider is down
C26_Witness ==
    /\ last # NoCall
    /\ last.op \in CatalogCheckedOps
    /\ ~InCatalog(str(last.arg[1]))
    /\ last.arg[3].net = "conn_error"
    /\ ~IsRaised(last.out)

\* the batting line the provider sent for the call in last
BattingLine ==
    IF last.op = "get_player_batting_data"
    THEN ReplyDoc.people[1].stats[1].splits[1].stat
    ELSE ReplyDoc.stats[1].splits[1].stat

\* a batting helper was given a complete batting record with plate appearances
BattingRecordWithAppearances ==
    /\ last # NoCall
    /\ last.op \in {"get_player_batting_data", "get_team_batting_data"}
    /\ ReplyDoc # None
    /\ \/ /\ last.op = "get_player_batting_data"
          /\ "people" \in DOMAIN ReplyDoc
          /\ Len(ReplyDoc.people) > 0
          /\ "stats" \in DOMAIN ReplyDoc.people[1]
          /\ Len(ReplyDoc.people[1].stats[1].splits) > 0
       \/ /\ last.op = "get_team_batting_data"
          /\ InCatalog(str(last.arg[1]))
          /\ "stats" \in DOMAIN ReplyDoc
          /\ Len(ReplyDoc.stats) > 0
          /\ Len(ReplyDoc.stats[1].splits) > 0
          /\ "team" \in DOMAIN ReplyDoc.stats[1].splits[1]
    /\ \A k \in {"gamesPlayed", "homeRuns", "baseOnBalls", "strikeOuts", "plateAppearances"} :
         k \in DOMAIN BattingLine
    /\ BattingLine.plateAppearances > 0
    /\ BattingLine.homeRuns >= 0
    /\ BattingLine.baseOnBalls >= 0
    /\ BattingLine.strikeOuts >= 0

\* C27: for every batting record with plate_appearances > 0 and non-negative
\* home runs, walks and strikeouts, zero included, get_player_batting_data and
\* get_team_batting_data return a record with the three derived rates set and
\* raise no error
C27_DerivedRatesNeverFail ==
    BattingRecordWithAppearances =>
        /\ ~IsRaised(last.out)
        /\ \A k \in {"plate_appearances_per_home_run", "plate_appearances_per_walk",
                     "plate_appearances_per_strikeout"} : k \in DOMAIN last.out.value

\* the part of C27 that the code does: no count of the three is zero
C27_RatesOfPositiveCounts ==
    (/\ BattingRecordWithAppearances
     /\ BattingLine.homeRuns > 0
     /\ BattingLine.baseOnBalls > 0
     /\ BattingLine.strikeOuts > 0) =>
        /\ ~IsRaised(last.out)
        /\ last.out.value.plate_appearances_per_home_run =
               Round1(BattingLine.plateAppearances, BattingLine.homeRuns)

\* the teams, among those initplayermap has recorded so far, whose roster
\* holds the player filed under key
HoldersSoFar(key) ==
    {t \in 1..(curteam - 1) : \E p \in upstream.roster[t] : str(p) = key}

\* C28: in every state reached by initplayermap each player has one entry in
\* player2team, whose team_id is a key of the catalog and whose team_name is the
\* catalog's name for it; for a player on several rosters it is the entry of
\* the team latest in the catalog's iteration order
C28_EntryIsOfLatestCatalogTeam ==
    \A key \in DOMAIN player2team :
        /\ HoldersSoFar(key) # {}
        /\ player2team[key].team_id = mlb_teams[Latest(HoldersSoFar(key))].id
        /\ player2team[key].team_name = mlb_teams[Latest(HoldersSoFar(key))].name

\* the build is through and some player is on the first and the last roster
C28_Witness ==
    /\ pc = "built"
    /\ \E p \in upstream.roster[1] \cap upstream.roster[Len(mlb_teams)] :
         /\ str(p) \in DOMAIN player2team
         /\ player2team[str(p)].team_id = mlb_teams[Len(mlb_teams)].id

SameOutcome(a, b) ==
    IF IsRaised(a) \/ IsRaised(b) THEN IsRaised(a) /\ IsRaised(b)
    ELSE /\ DOMAIN a.value = DOMAIN b.value
         /\ \A k \in DOMAIN a.value : a.value[k] = b.value[k]

\* what the other copy makes of the arguments and replies of the call in last
OtherCopy ==
    CASE last.op = "lookup_team_id" ->
           lookup_team(last.arg[1], last.arg[2], last.arg[3])
      [] last.op = "lookup_team" ->
           lookup_team_id(last.arg[1], last.arg[2], last.arg[3])
      [] last.op = "calculate_pythagorean_wins" ->
           IF PythagoreanError(last.arg[1], last.arg[2], last.arg[3]) # "none"
           THEN Raised(PythagoreanError(last.arg[1], last.arg[2], last.arg[3]))
           ELSE Returned(baseball_server_calculate_pythagorean_wins(
                             last.arg[1], last.arg[2], last.arg[3]))
      [] last.op = "baseball_server.calculate_pythagorean_wins" ->
           IF PythagoreanError(last.arg[1], last.arg[2], last.arg[3]) # "none"
           THEN Raised(PythagoreanError(last.arg[1], last.arg[2], last.arg[3]))
           ELSE Returned(calculate_pythagorean_wins(last.arg[1], last.arg[2], last.arg[3]))

\* C30: the duplicated implementations agree: on the same inputs and the same
\* replies of the provider baseball_server.calculate_pythagorean_wins returns
\* what helpers.calculate_pythagorean_wins returns, and the endpoint lookup_team
\* returns what helpers.lookup_team_id returns and fails when it fails
C30_DuplicatesAgree ==
    last # NoCall => SameOutcome(last.out, OtherCopy)

\* the endpoint resolved a name through the substring scan, in the second league
C30_Witness ==
    /\ last # NoCall
    /\ last.op = "lookup_team"
    /\ ~IsRaised(last.out)
    /\ DOMAIN last.out.value # {}
    /\ last.arg[2].net = "ok"
    /\ last.arg[3].net = "ok"
    /\ strip(lower(last.out.value.team_name)) # strip(lower(last.arg[1]))

====
